---- MODULE Spec2Model ----
(***************************************************************************)
(* A model of the ictagent core: the session classifier                    *)
(* (core/sessions.py), signal validation (core/base_strategy.py) and the   *)
(* multi-strategy backtest orchestrator (core/trading_bot.py with          *)
(* data/loader.py and utils/timezones.py).                                 *)
(*                                                                         *)
(* Times of day are minutes since midnight: datetime.time(h, m) compares   *)
(* as h * 60 + m.  A timestamp is a zone tag (None for a naive one), its   *)
(* wall-clock time of day in that zone and whether its date lies in the    *)
(* daylight-saving part of the America/New_York year.  Dates are chosen    *)
(* away from the two transition nights, so the flag is a property of the   *)
(* date and the conversions are total.                                     *)
(***************************************************************************)
EXTENDS Integers, Sequences, FiniteSets, TLC

VARIABLES
    tw_call,        \* arguments of the last in_time_window call, or None
    tw_mask,        \* the mask value it returned for the timestamp
    sm_call,        \* arguments of the last get_session_mask call, or None
    sm_result,      \* what it raised or returned
    sf_call,        \* arguments of the last get_session_filter call, or None
    sf_result,      \* what it returned
    sig_call,       \* arguments of the last validate_signal call, or None
    sig_valid,      \* what validate_signal returned
    size_call,      \* arguments of the last position sizing, or None
    size_result,    \* what it raised or returned
    INSTRUMENTS,    \* ICTTradingBot.INSTRUMENTS (class attribute)
    risk_config,    \* ICTTradingBot.risk_config
    strategies,     \* ICTTradingBot.strategies
    results,        \* ICTTradingBot.results
    pc,             \* position of the running backtest call, "idle" outside
    run,            \* locals of the running / last backtest call
    calls,          \* collaborator calls made by the running / last backtest
    outcome,        \* how the last public call ended
    registered      \* number of add_strategy calls so far

vars == <<tw_call, tw_mask, sm_call, sm_result, sf_call, sf_result, sig_call, sig_valid, size_call,
          size_result, INSTRUMENTS, risk_config,
          strategies, results, pc, run, calls, outcome, registered>>

sessionVars == <<tw_call, tw_mask, sm_call, sm_result, sf_call, sf_result>>
signalVars == <<sig_call, sig_valid, size_call, size_result>>
botVars == <<INSTRUMENTS, risk_config, strategies, results, pc, run, calls,
             outcome, registered>>

\* Optional values: None is the empty sequence, a present value v is <<v>>.
None == <<>>
Some(v) == <<v>>

(***************************************************************************)
(* Bounds of the model.                                                    *)
(***************************************************************************)
SlotsPerHour == 2       \* times of day lie on a grid of 60 / SlotsPerHour minutes
MaxPrice == 5           \* prices of a signal are 1..MaxPrice
MaxStrategies == 2      \* add_strategy is called at most this often
MaxBars == 2            \* a download holds at most this many bars

MinutesPerHour == 60
MinutesPerDay == 24 * MinutesPerHour

GridMinutes == {k * (MinutesPerHour \div SlotsPerHour) : k \in 0..(SlotsPerHour - 1)}

\* (hour, minute) pairs used as window bounds: the named sessions' hours and
\* the overnight example's.
WindowHours == {0, 2, 9, 10, 22}
WindowHM == {<<h, m>> : h \in WindowHours, m \in GridMinutes}

NY_TZ == "America/New_York"
Naive == "naive"       \* index.tz is None
Zones == {Naive, "UTC", NY_TZ}

Timestamps ==
    [tz : Zones,
     wall : {h * MinutesPerHour + m : h \in 0..23, m \in GridMinutes},
     dst : BOOLEAN]

(***************************************************************************)
(* Time zones.                                                             *)
(***************************************************************************)
\* Minutes America/New_York is behind UTC: EDT is UTC-4, EST is UTC-5.
UtcOffset(dst) == IF dst THEN 4 * MinutesPerHour ELSE 5 * MinutesPerHour

\* DatetimeIndex.tz_localize(zone): a naive timestamp gets the zone, its
\* wall-clock reading is kept.
TzLocalize(ts, zone) == [ts EXCEPT !.tz = zone]

\* The time of day in UTC of a zone-qualified timestamp.
UtcWall(ts) ==
    IF ts.tz = NY_TZ
    THEN (ts.wall + UtcOffset(ts.dst)) % MinutesPerDay
    ELSE ts.wall

\* DatetimeIndex.tz_convert(zone): same instant, wall clock of the new zone.
TzConvert(ts, zone) ==
    [ts EXCEPT !.tz = zone,
               !.wall = IF zone = NY_TZ
                        THEN (UtcWall(ts) + MinutesPerDay - UtcOffset(ts.dst))
                                 % MinutesPerDay
                        ELSE UtcWall(ts)]

\* utils/timezones.py ensure_est_timezone, on one index entry.
ensure_est_timezone(ts) ==
    IF ts.tz = Naive
    THEN TzConvert(TzLocalize(ts, "UTC"), NY_TZ)
    ELSE IF ts.tz # NY_TZ
         THEN TzConvert(ts, NY_TZ)
         ELSE ts

\* datetime.time(hour, minute)
Time(hm) == hm[1] * MinutesPerHour + hm[2]

(***************************************************************************)
(* SessionManager.in_time_window, on one index entry.  The mask is         *)
(* computed element by element, so one entry stands for the index.         *)
(***************************************************************************)
in_time_window_end_inclusive(index, start_hm, end_hm) ==
    LET idx_est == IF index.tz = Naive
                   THEN TzLocalize(index, NY_TZ)
                   ELSE TzConvert(index, NY_TZ)
        start_time == Time(start_hm)
        end_time == Time(end_hm)
        current_times == idx_est.wall
    IN  IF start_time <= end_time
        THEN (current_times >= start_time) /\ (current_times <= end_time)
        ELSE (current_times >= start_time) \/ (current_times <= end_time)

in_time_window(index, start_hm, end_hm) ==
    LET idx_est == IF index.tz = Naive
                   THEN TzLocalize(index, NY_TZ)
                   ELSE TzConvert(index, NY_TZ)
        start_time == Time(start_hm)
        end_time == Time(end_hm)
        current_times == idx_est.wall
    IN  IF start_time <= end_time
        THEN (current_times >= start_time) /\ (current_times < end_time)
        ELSE (current_times >= start_time) \/ (current_times < end_time)

\* No call of in_time_window is under way.
IdleSession ==
    /\ tw_call = None
    /\ tw_mask = None
    /\ sm_call = None
    /\ sm_result = None
    /\ sf_call = None
    /\ sf_result = None

\* The arguments of a call of in_time_window.
InitSession ==
    /\ tw_call \in {Some([index |-> index, start_hm |-> start_hm,
                          end_hm |-> end_hm]) :
                       index \in Timestamps, start_hm \in WindowHM,
                       end_hm \in WindowHM}
    /\ tw_mask = None
    /\ sm_call = None
    /\ sm_result = None
    /\ sf_call = None
    /\ sf_result = None

\* The call of SessionManager.in_time_window returns.
InTimeWindow ==
    /\ tw_call # None
    /\ tw_mask = None
    /\ tw_mask' = Some(in_time_window(tw_call[1].index, tw_call[1].start_hm,
                                      tw_call[1].end_hm))
    /\ UNCHANGED <<tw_call, sm_call, sm_result, sf_call, sf_result, signalVars,
                   botVars>>

(***************************************************************************)
(* The named sessions (core/sessions.py).                                  *)
(***************************************************************************)
premarket_session(index) == in_time_window(index, <<2, 0>>, <<7, 0>>)
ny_open_session(index) == in_time_window(index, <<9, 30>>, <<10, 0>>)
ny_killzone(index) == in_time_window(index, <<10, 0>>, <<11, 0>>)
london_ny_overlap(index) == in_time_window(index, <<8, 0>>, <<11, 0>>)
power_hour(index) == in_time_window(index, <<14, 0>>, <<15, 0>>)
afternoon_session(index) == in_time_window(index, <<13, 0>>, <<16, 0>>)

\* The keys of session_map.
SessionMapKeys ==
    {"premarket", "ny_open", "killzone", "london_ny", "power_hour", "afternoon"}

\* session_map[session](index)
SessionMap(session, index) ==
    CASE session = "premarket" -> premarket_session(index)
      [] session = "ny_open" -> ny_open_session(index)
      [] session = "killzone" -> ny_killzone(index)
      [] session = "london_ny" -> london_ny_overlap(index)
      [] session = "power_hour" -> power_hour(index)
      [] session = "afternoon" -> afternoon_session(index)

\* Names a caller may pass: the registered ones and others.
SessionNames == SessionMapKeys \cup {"asia", "ny-open", ""}

UnknownSession == "ValueError: Unknown session"

get_session_mask_default_false(index, session) ==
    IF session \notin SessionMapKeys
    THEN [raised |-> None, mask |-> Some(FALSE)]
    ELSE [raised |-> None, mask |-> Some(SessionMap(session, index))]

\* SessionManager.get_session_mask, on one index entry: what it raises or
\* the mask it returns.
get_session_mask(index, session) ==
    IF session \notin SessionMapKeys
    THEN [raised |-> Some(UnknownSession), mask |-> None]
    ELSE [raised |-> None, mask |-> Some(SessionMap(session, index))]

\* The arguments of a call of get_session_mask.
InitSessionMask ==
    /\ tw_call = None
    /\ tw_mask = None
    /\ sm_call \in {Some([index |-> index, session |-> session]) :
                       index \in Timestamps, session \in SessionNames}
    /\ sm_result = None
    /\ sf_call = None
    /\ sf_result = None

\* The call of SessionManager.get_session_mask returns or raises.
GetSessionMask ==
    /\ sm_call # None
    /\ sm_result = None
    /\ sm_result' = Some(get_session_mask(sm_call[1].index, sm_call[1].session))
    /\ UNCHANGED <<tw_call, tw_mask, sm_call, sf_call, sf_result, signalVars,
                   botVars>>

(***************************************************************************)
(* The strategy-side session filter (core/base_strategy.py).               *)
(***************************************************************************)
\* StrategyBase.get_session_filter(timestamp, session_start, session_end);
\* timestamp.time() is the timestamp's own wall-clock time.
get_session_filter(timestamp, session_start, session_end) ==
    LET current_time == timestamp.wall
    IN  IF session_start <= session_end
        THEN session_start <= current_time /\ current_time <= session_end
        ELSE current_time >= session_start \/ current_time <= session_end

\* The arguments of a call of get_session_filter: a timestamp in New York
\* time and the session's bounds.
InitSessionFilter ==
    /\ tw_call = None
    /\ tw_mask = None
    /\ sm_call = None
    /\ sm_result = None
    /\ sf_call \in {Some([timestamp |-> timestamp, start_hm |-> start_hm,
                          end_hm |-> end_hm]) :
                       timestamp \in {ts \in Timestamps : ts.tz = NY_TZ},
                       start_hm \in WindowHM, end_hm \in WindowHM}
    /\ sf_result = None

\* The call of get_session_filter returns.
GetSessionFilter ==
    /\ sf_call # None
    /\ sf_result = None
    /\ sf_result' = Some(get_session_filter(sf_call[1].timestamp,
                                             Time(sf_call[1].start_hm),
                                             Time(sf_call[1].end_hm)))
    /\ UNCHANGED <<tw_call, tw_mask, sm_call, sm_result, sf_call, signalVars,
                   botVars>>

(***************************************************************************)
(* Signals and their validation (core/base_strategy.py).  Prices are       *)
(* whole numbers; min_risk_reward is a fraction <<numerator, denominator>>.*)
(***************************************************************************)
SignalType == {"BUY", "SELL", "CLOSE_LONG", "CLOSE_SHORT", "NONE"}

Prices == 1..MaxPrice

Signal ==
    [signal_type : SignalType,
     price : Prices,
     stop_loss : {None} \cup {Some(p) : p \in Prices},
     take_profit : {None} \cup {Some(p) : p \in Prices},
     confidence : {0, 1}]

\* RiskConfig.min_risk_reward: the default 1.0 and other settings.
DefaultMinRiskReward == <<1, 1>>
MinRiskRewardChoices == {<<1, 2>>, DefaultMinRiskReward, <<2, 1>>}

abs(x) == IF x < 0 THEN -x ELSE x

\* reward / risk >= num / den, for risk > 0 and den > 0
RatioAtLeast(reward, risk, min) == reward * min[2] >= min[1] * risk

validate_signal_fail_open(signal) ==
    IF signal.stop_loss = None
    THEN TRUE
    ELSE IF signal.signal_type \in {"BUY", "SELL"} /\ signal.take_profit # None
         THEN LET risk == abs(signal.price - signal.stop_loss[1])
                  reward == abs(signal.take_profit[1] - signal.price)
              IN  IF risk > 0
                  THEN RatioAtLeast(reward, risk, <<1, 1>>)
                  ELSE TRUE
         ELSE TRUE

\* StrategyBase.validate_signal(signal, data, current_bar); data and
\* current_bar are not read.
validate_signal(signal) ==
    IF signal.stop_loss = None
    THEN FALSE
    ELSE IF signal.signal_type \in {"BUY", "SELL"} /\ signal.take_profit # None
         THEN LET risk == IF signal.signal_type = "BUY"
                          THEN abs(signal.price - signal.stop_loss[1])
                          ELSE abs(signal.stop_loss[1] - signal.price)
                  reward == IF signal.signal_type = "BUY"
                            THEN abs(signal.take_profit[1] - signal.price)
                            ELSE abs(signal.price - signal.take_profit[1])
              IN  IF risk > 0
                  THEN RatioAtLeast(reward, risk, <<1, 1>>)
                  ELSE TRUE
         ELSE TRUE

\* No call of validate_signal is under way.
IdleSignal ==
    /\ sig_call = None
    /\ sig_valid = None
    /\ size_call = None
    /\ size_result = None

\* The arguments of a call of validate_signal, on a strategy whose run uses a
\* RiskConfig with the given min_risk_reward.
InitSignal ==
    /\ sig_call \in {Some([signal |-> signal, min_risk_reward |-> min]) :
                        signal \in Signal, min \in MinRiskRewardChoices}
    /\ sig_valid = None
    /\ size_call = None
    /\ size_result = None

\* The call of validate_signal returns.
ValidateSignal ==
    /\ sig_call # None
    /\ sig_valid = None
    /\ sig_valid' = Some(validate_signal(sig_call[1].signal))
    /\ UNCHANGED <<sig_call, size_call, size_result, sessionVars, botVars>>

(***************************************************************************)
(* Position sizing.  StrategyBase.calculate_position_size is declared      *)
(* abstract and has no implementation in the sources at hand; the sizing   *)
(* below is the contract of the design document (section 4.2).  Equity is  *)
(* in whole currency units, risk_per_trade in percent, a stop distance in  *)
(* points (futures, index) or pips (forex); a quantity counts minimum      *)
(* tradable increments: whole contracts, or hundredths of a standard lot.  *)
(***************************************************************************)
SizingInstruments ==
    {[asset_class |-> "futures", point_value |-> 50, increments |-> 1],
     [asset_class |-> "index", point_value |-> 1000, increments |-> 1],
     [asset_class |-> "forex", point_value |-> 10, increments |-> 100],
     [asset_class |-> "unknown", point_value |-> 1, increments |-> 1]}

Equities == {50000, 100000}
RiskPercents == {1, 2}

SizingError == "SizingError"
ZeroDivisionError == "ZeroDivisionError"

Max(a, b) == IF a >= b THEN a ELSE b

size_unchecked(signal, equity, risk_per_trade, instrument) ==
    LET risk_amount == (equity * risk_per_trade) \div 100
        stop_distance == abs(signal.price - signal.stop_loss[1])
    IN  IF stop_distance = 0
        THEN [raised |-> Some(ZeroDivisionError), quantity |-> None,
              risk_amount |-> None]
        ELSE [raised |-> None,
              quantity |-> Some((risk_amount * instrument.increments)
                                   \div (stop_distance * instrument.point_value)),
              risk_amount |-> Some(risk_amount)]

\* size(signal, equity, risk_config, instrument): the SizingError it raises,
\* or the quantity and risk amount of the SizedSignal it returns.
size(signal, equity, risk_per_trade, instrument) ==
    LET risk_amount == (equity * risk_per_trade) \div 100
        stop_distance == abs(signal.price - signal.stop_loss[1])
    IN  IF stop_distance <= 0
        THEN [raised |-> Some(SizingError), quantity |-> None,
              risk_amount |-> None]
        ELSE [raised |-> None,
              quantity |-> Some(Max(1, (risk_amount * instrument.increments)
                                          \div (stop_distance
                                                  * instrument.point_value))),
              risk_amount |-> Some(risk_amount)]

\* The arguments of a sizing: an entry signal that has a stop, the account's
\* equity, the risk fraction and the instrument.
InitSizing ==
    /\ sig_call = None
    /\ sig_valid = None
    /\ size_call \in {Some([signal |-> signal, equity |-> equity,
                            risk_per_trade |-> pct, instrument |-> instrument]) :
                         signal \in {g \in Signal :
                                        /\ g.stop_loss # None
                                        /\ g.signal_type \in {"BUY", "SELL"}},
                         equity \in Equities, pct \in RiskPercents,
                         instrument \in SizingInstruments}
    /\ size_result = None

\* The sizing returns or raises.
Size ==
    /\ size_call # None
    /\ size_result = None
    /\ size_result' = Some(size(size_call[1].signal, size_call[1].equity,
                                size_call[1].risk_per_trade,
                                size_call[1].instrument))
    /\ UNCHANGED <<sig_call, sig_valid, size_call, sessionVars, botVars>>

(***************************************************************************)
(* The instrument table (core/trading_bot.py).  Prices and sizes are kept  *)
(* as written in the source; nothing computes with them here.              *)
(***************************************************************************)
\* The InstrumentMeta record type: the fields the table's entries set, the
\* two pip fields absent unless given.
InstrumentMeta(symbol, asset_class, tick_size, point_value, pip, pip_value) ==
    [symbol |-> symbol, asset_class |-> asset_class, tick_size |-> tick_size,
     point_value |-> point_value, pip |-> pip,
     pip_value_per_standard_lot |-> pip_value]

PredefinedInstruments ==
    [sym \in {"ES=F", "EURUSD=X", "DX-Y.NYB"} |->
        CASE sym = "ES=F" ->
                InstrumentMeta("ES=F", "futures", "0.25", "50.0", None, None)
          [] sym = "EURUSD=X" ->
                InstrumentMeta("EURUSD=X", "forex", "0.00001", "1.0",
                               Some("0.0001"), Some("10.0"))
          [] sym = "DX-Y.NYB" ->
                InstrumentMeta("DX-Y.NYB", "index", "0.001", "1000.0", None, None)]

Symbols == DOMAIN PredefinedInstruments \cup {"AAPL", "GC=F"}
BacktestSymbols == {"ES=F", "AAPL"}

KeyError == "KeyError"

get_instrument_meta_no_fallback(table, symbol) ==
    IF symbol \in DOMAIN table
    THEN [raised |-> None, value |-> Some(table[symbol]), table |-> table]
    ELSE [raised |-> Some(KeyError), value |-> None, table |-> table]

\* ICTTradingBot.get_instrument_meta: what it raises, what it returns and
\* the table it leaves.
get_instrument_meta(table, symbol) ==
    IF symbol \in DOMAIN table
    THEN [raised |-> None, value |-> Some(table[symbol]), table |-> table]
    ELSE [raised |-> None,
          value |-> Some(InstrumentMeta(symbol, "unknown", "0.01", "1.0",
                                        None, None)),
          table |-> table]

(***************************************************************************)
(* Data loading (data/loader.py).  A download either fails or delivers a   *)
(* frame: whether it has the OHLCV columns, and its index, whose entries   *)
(* matter here only for being equal or different.                          *)
(***************************************************************************)
RECURSIVE SeqsUpTo(_, _)
SeqsUpTo(S, n) ==
    IF n = 0
    THEN {<<>>}
    ELSE LET shorter == SeqsUpTo(S, n - 1)
         IN  shorter \cup {Append(q, x) : q \in shorter, x \in S}

\* Two bar times; a download may repeat them.
BarTimes == {"t1", "t2"}

Downloads ==
    [failed : BOOLEAN, columns : BOOLEAN, index : SeqsUpTo(BarTimes, MaxBars)]

\* DataFrame.empty, as read at loader.py:52 and trading_bot.py:77
df_is_none(df) == FALSE

df_empty(df) == Len(df.index) = 0

\* df[~df.index.duplicated(keep='first')]
RECURSIVE DropDuplicated(_)
DropDuplicated(index) ==
    IF index = <<>>
    THEN <<>>
    ELSE LET n == Len(index)
             front == DropDuplicated(SubSeq(index, 1, n - 1))
         IN  IF \E k \in 1..(n - 1) : index[k] = index[n]
             THEN front
             ELSE Append(front, index[n])

DownloadError == "RuntimeError: Failed to download data"
NoDataReturned == "ValueError: No data returned"
MissingColumns == "ValueError: Missing required columns"
IndexError == "IndexError"
NoDataLoaded == "ValueError: No data loaded"
NoStrategiesAdded == "ValueError: No strategies added to bot"
AttributeError == "AttributeError"
StrategyError == "strategy raised"
EngineError == "engine raised"
AnalyzerError == "analyzer raised"

\* data/loader.py load_yfinance: the error it raises or the frame it returns.
load_yfinance(raw) ==
    IF raw.failed
    THEN [raised |-> Some(DownloadError), df |-> None]
    ELSE IF df_empty(raw)
    THEN [raised |-> Some(NoDataReturned), df |-> None]
    ELSE IF ~raw.columns
    THEN [raised |-> Some(MissingColumns), df |-> None]
    ELSE LET df == [raw EXCEPT !.index = DropDuplicated(raw.index)]
         IN  IF Len(df.index) = 0      \* df.index[0] in the closing print
             THEN [raised |-> Some(IndexError), df |-> None]
             ELSE [raised |-> None, df |-> Some(df)]

(***************************************************************************)
(* ICTTradingBot (core/trading_bot.py).  A strategy object is its identity *)
(* (the number of its registration) and its name.  A dict is the sequence  *)
(* of its items in insertion order.  backtest runs in steps, one per call  *)
(* of a collaborator that can fail (the data loader, a strategy's prepare, *)
(* the engine, the analyzer); calls logs those calls and the recording of  *)
(* each strategy's result.                                                 *)
(***************************************************************************)
StrategyNames == {"ob", "fvg"}

EmptyDict == <<>>

DictKeys(d) == {d[k].key : k \in DOMAIN d}

\* d[key] = value
DictSet(d, key, value) ==
    IF key \in DictKeys(d)
    THEN [k \in DOMAIN d |->
             IF d[k].key = key THEN [key |-> key, value |-> value] ELSE d[k]]
    ELSE Append(d, [key |-> key, value |-> value])

\* RiskConfig() as core/base_strategy.py declares it has no initial_capital
\* attribute; a caller may pass a configuration object that has one.
RiskConfig == [min_risk_reward |-> DefaultMinRiskReward, initial_capital |-> None]
RiskConfigs == {RiskConfig, [RiskConfig EXCEPT !.initial_capital = Some("100000.0")]}

Outcome(call, arg, status, error, value) ==
    [call |-> call, arg |-> arg, status |-> status, error |-> error,
     value |-> value]

Event(op, strategy) == [op |-> op, strategy |-> strategy]

InitBot ==
    /\ INSTRUMENTS = PredefinedInstruments
    /\ risk_config \in RiskConfigs
    /\ strategies = <<>>
    /\ results = EmptyDict
    /\ pc = "idle"
    /\ run = [symbol |-> "", raw |-> None, df |-> None, meta |-> None, i |-> 0,
              result |-> None, results |-> EmptyDict,
              results_before |-> EmptyDict, failed_at |-> 0,
              trades |-> <<>>]
    /\ calls = <<>>
    /\ outcome = Outcome("__init__", "", "returned", "", None)
    /\ registered = 0

add_strategy_first(list, strategy) == <<strategy>> \o list

\* self.strategies.append(strategy)
add_strategy(list, strategy) == Append(list, strategy)

AddStrategy ==
    \E name \in StrategyNames :
        /\ pc = "idle"
        /\ registered < MaxStrategies
        /\ strategies' = add_strategy(strategies,
                                      [id |-> registered + 1, name |-> name])
        /\ registered' = registered + 1
        /\ outcome' = Outcome("add_strategy", name, "returned", "", None)
        /\ UNCHANGED <<INSTRUMENTS, risk_config, results, pc, run, calls>>
        /\ UNCHANGED <<sessionVars, signalVars>>

\* A call of get_instrument_meta from outside backtest.
GetInstrumentMeta ==
    \E symbol \in Symbols :
        LET r == get_instrument_meta(INSTRUMENTS, symbol)
        IN  /\ pc = "idle"
            /\ INSTRUMENTS' = r.table
            /\ outcome' = IF r.raised = None
                          THEN Outcome("get_instrument_meta", symbol, "returned",
                                       "", r.value)
                          ELSE Outcome("get_instrument_meta", symbol, "raised",
                                       r.raised[1], None)
            /\ UNCHANGED <<risk_config, strategies, results, pc, run, calls,
                           registered>>
            /\ UNCHANGED <<sessionVars, signalVars>>

strategies_is_none(list) == FALSE

\* not self.strategies
no_strategies(list) == Len(list) = 0

on_exception_isolated(i, n) ==
    IF i < n THEN [pc |-> "prepare", i |-> i + 1] ELSE [pc |-> "idle", i |-> i]

\* Where an exception raised in iteration i of the loop over n strategies
\* takes backtest: the loop has no handler, so out of the call.
on_exception(i, n) == [pc |-> "idle", i |-> i]

\* The exception err leaves backtest before the loop, log being the calls made.
Raise(err, log) ==
    /\ pc' = "idle"
    /\ calls' = log
    /\ outcome' = Outcome("backtest", run.symbol, "raised", err, None)
    /\ UNCHANGED <<strategies, results, risk_config, registered>>

RaiseInLoopPartial(err, log) ==
    LET next == on_exception(run.i, Len(strategies))
    IN  /\ pc' = next.pc
        /\ calls' = log
        /\ run' = [run EXCEPT !.failed_at = run.i, !.i = next.i, !.result = None]
        /\ outcome' = IF next.pc = "idle"
                      THEN Outcome("backtest", run.symbol, "raised", err, None)
                      ELSE outcome
        /\ results' = run.results
        /\ UNCHANGED <<INSTRUMENTS, strategies, risk_config, registered>>

\* The exception err is raised in the loop's iteration run.i.
RaiseInLoop(err, log) ==
    LET next == on_exception(run.i, Len(strategies))
    IN  /\ pc' = next.pc
        /\ calls' = log
        /\ run' = [run EXCEPT !.failed_at = run.i, !.i = next.i, !.result = None]
        /\ outcome' = IF next.pc = "idle"
                      THEN Outcome("backtest", run.symbol, "raised", err, None)
                      ELSE outcome
        /\ UNCHANGED <<INSTRUMENTS, strategies, results, risk_config, registered>>

\* The loop is over: self.results = results; return results
Return(local, log) ==
    /\ pc' = "idle"
    /\ calls' = log
    /\ results' = local
    /\ outcome' = Outcome("backtest", run.symbol, "returned", "", Some(local))
    /\ UNCHANGED <<strategies, risk_config, registered>>

\* backtest up to the call of the loader.
Backtest ==
    \E symbol \in BacktestSymbols :
        /\ pc = "idle"
        /\ run' = [symbol |-> symbol, raw |-> None, df |-> None, meta |-> None,
                   i |-> 0, result |-> None, results |-> EmptyDict,
                   results_before |-> results, failed_at |-> 0,
                   trades |-> <<>>]
        /\ calls' = <<>>
        /\ IF no_strategies(strategies)
           THEN /\ pc' = "idle"
                /\ outcome' = Outcome("backtest", symbol, "raised",
                                      NoStrategiesAdded, None)
           ELSE /\ pc' = "load"
                /\ outcome' = Outcome("backtest", symbol, "running", "", None)
        /\ UNCHANGED <<INSTRUMENTS, risk_config, strategies, results, registered>>
        /\ UNCHANGED <<sessionVars, signalVars>>

\* load_yfinance returns or raises; then the df.empty check, the instrument
\* lookup, the engine's construction, results = {} and the loop's entry.
LoadData ==
    \E raw \in Downloads :
        LET loaded == load_yfinance(raw)
            log == Append(calls, Event("load_yfinance", 0))
            m == get_instrument_meta(INSTRUMENTS, run.symbol)
            ready == log \o <<Event("get_instrument_meta", 0),
                             Event("BacktraderEngine", 0)>>
        IN  /\ pc = "load"
            /\ IF loaded.raised # None
               THEN /\ Raise(loaded.raised[1], log)
                    /\ run' = [run EXCEPT !.raw = Some(raw)]
                    /\ UNCHANGED INSTRUMENTS
               ELSE IF df_empty(loaded.df[1])
               THEN /\ Raise(NoDataLoaded, log)
                    /\ run' = [run EXCEPT !.raw = Some(raw), !.df = loaded.df]
                    /\ UNCHANGED INSTRUMENTS
               ELSE IF m.raised # None
               THEN /\ Raise(m.raised[1], Append(log, Event("get_instrument_meta", 0)))
                    /\ run' = [run EXCEPT !.raw = Some(raw), !.df = loaded.df]
                    /\ INSTRUMENTS' = m.table
               ELSE /\ INSTRUMENTS' = m.table
                    /\ IF Len(strategies) = 0
                       THEN /\ Return(EmptyDict, ready)
                            /\ run' = [run EXCEPT !.raw = Some(raw),
                                                  !.df = loaded.df,
                                                  !.meta = m.value]
                       ELSE /\ pc' = "prepare"
                            /\ calls' = ready
                            /\ run' = [run EXCEPT !.raw = Some(raw),
                                                  !.df = loaded.df,
                                                  !.meta = m.value, !.i = 1]
                            /\ UNCHANGED <<strategies, results, risk_config,
                                           registered, outcome>>
            /\ UNCHANGED <<sessionVars, signalVars>>

\* strategy.prepare(df, meta, self.risk_config)
Prepare ==
    \E ok \in BOOLEAN :
        LET strategy == strategies[run.i]
            log == Append(calls, Event("prepare", strategy.id))
        IN  /\ pc = "prepare"
            /\ IF ok
               THEN /\ pc' = "run_backtest"
                    /\ calls' = log
                    /\ UNCHANGED <<INSTRUMENTS, strategies, results, risk_config,
                                   registered, outcome, run>>
               ELSE RaiseInLoop(StrategyError, log)
            /\ UNCHANGED <<sessionVars, signalVars>>

\* result['trades'] of an engine run: no trade, or one.
TradeLists == {<<>>, <<"trade">>}

\* engine.run_backtest(strategy, df, meta, self.risk_config, config)
RunBacktest ==
    \E ok \in BOOLEAN, trades \in TradeLists :
        LET strategy == strategies[run.i]
            log == Append(calls, Event("run_backtest", strategy.id))
        IN  /\ pc = "run_backtest"
            /\ IF ok
               THEN /\ pc' = "analyze"
                    /\ calls' = log
                    /\ run' = [run EXCEPT !.result = Some([trades |-> trades]),
                                          !.trades = Append(run.trades, trades)]
                    /\ UNCHANGED <<INSTRUMENTS, strategies, results, risk_config,
                                   registered, outcome>>
               ELSE RaiseInLoop(EngineError, log)
            /\ UNCHANGED <<sessionVars, signalVars>>

\* strategy.get_strategy_info(), as far as it is read here
get_strategy_info(strategy) == [name |-> strategy.name]

\* analyzer.analyze(result['trades'], self.risk_config.initial_capital), the
\* results[strategy.name] = ... that follows, and the loop's next turn or end.
Analyze ==
    \E ok \in BOOLEAN :
        LET strategy == strategies[run.i]
            log == Append(calls, Event("analyze", strategy.id))
            performance == [total_trades |-> Len(run.result[1].trades)]
            local == DictSet(run.results, strategy.name,
                             [strategy_info |-> get_strategy_info(strategy),
                              backtest_result |-> run.result[1],
                              performance |-> performance])
            recorded == Append(log, Event("record", strategy.id))
        IN  /\ pc = "analyze"
            /\ IF risk_config.initial_capital = None
               THEN RaiseInLoop(AttributeError, calls)
               ELSE IF ~ok
               THEN RaiseInLoop(AnalyzerError, log)
               ELSE IF run.i < Len(strategies)
               THEN /\ pc' = "prepare"
                    /\ calls' = recorded
                    /\ run' = [run EXCEPT !.results = local, !.i = run.i + 1,
                                          !.result = None]
                    /\ UNCHANGED <<INSTRUMENTS, strategies, results, risk_config,
                                   registered, outcome>>
               ELSE /\ Return(local, recorded)
                    /\ run' = [run EXCEPT !.results = local, !.result = None]
                    /\ UNCHANGED INSTRUMENTS
            /\ UNCHANGED <<sessionVars, signalVars>>

\* The rows of the frame get_performance_summary builds, one per item of
\* self.results in the dict's order; of the columns, the strategy's name and
\* the trade count are kept, the analyzer's other metrics are not modelled.
get_performance_summary(res) ==
    IF res = EmptyDict
    THEN <<>>
    ELSE [k \in DOMAIN res |->
             [Strategy |-> res[k].key,
              Total_Trades |-> res[k].value.performance.total_trades]]

\* A call of get_performance_summary.
GetPerformanceSummary ==
    /\ pc = "idle"
    /\ outcome' = Outcome("get_performance_summary", "", "returned", "",
                          Some(get_performance_summary(results)))
    /\ UNCHANGED <<INSTRUMENTS, risk_config, strategies, results, pc, run, calls,
                   registered>>
    /\ UNCHANGED <<sessionVars, signalVars>>

(***************************************************************************)
(* Specifications: one per component, over the same state.                 *)
(***************************************************************************)
NextSession == InTimeWindow
NextSessionMask == GetSessionMask
NextSessionFilter == GetSessionFilter
NextSignal == ValidateSignal
NextSizing == Size
NextBot ==
    \/ AddStrategy
    \/ GetInstrumentMeta
    \/ Backtest
    \/ LoadData
    \/ Prepare
    \/ RunBacktest
    \/ Analyze
    \/ GetPerformanceSummary

\* The states each specification starts in.
SessionStart == InitSession /\ IdleSignal /\ InitBot
SessionMaskStart == InitSessionMask /\ IdleSignal /\ InitBot
SessionFilterStart == InitSessionFilter /\ IdleSignal /\ InitBot
SignalStart == IdleSession /\ InitSignal /\ InitBot
SizingStart == IdleSession /\ InitSizing /\ InitBot
BotStart == IdleSession /\ IdleSignal /\ InitBot

SpecSession == SessionStart /\ [][NextSession]_vars
SpecSessionMask == SessionMaskStart /\ [][NextSessionMask]_vars
SpecSessionFilter == SessionFilterStart /\ [][NextSessionFilter]_vars
SpecSignal == SignalStart /\ [][NextSignal]_vars
SpecSizing == SizingStart /\ [][NextSizing]_vars
SpecBot == BotStart /\ [][NextBot]_vars

(***************************************************************************)
(* Properties of the session classifier, under SpecSession.                *)
(***************************************************************************)
\* C1: in_time_window is true exactly when the timestamp's local time t in
\* the exchange zone satisfies start <= t < end for start <= end, and
\* t >= start or t < end for start > end; t = start is in, t = end is out.
\* The local time of a zone-qualified timestamp is its UTC time less the
\* zone's offset on that date; a timestamp without a zone is read as it
\* stands.
WindowIsEndExclusive ==
    tw_mask # None =>
        LET c == tw_call[1]
            t == IF c.index.tz = "UTC"
                 THEN (c.index.wall + 24 * 60
                         - (IF c.index.dst THEN 4 * 60 ELSE 5 * 60)) % (24 * 60)
                 ELSE c.index.wall
            start == c.start_hm[1] * 60 + c.start_hm[2]
            end == c.end_hm[1] * 60 + c.end_hm[2]
        IN  /\ tw_mask[1] = IF start <= end
                            THEN start <= t /\ t < end
                            ELSE t >= start \/ t < end
            /\ (t = start /\ start # end) => tw_mask[1]
            /\ t = end => ~tw_mask[1]

\* C1 witness: a UTC timestamp whose New York time is exactly the end of an
\* overnight window is left out of it.
OvernightEndExcluded ==
    /\ tw_mask = Some(FALSE)
    /\ tw_call[1].index.tz = "UTC"
    /\ Time(tw_call[1].start_hm) > Time(tw_call[1].end_hm)
    /\ TzConvert(tw_call[1].index, NY_TZ).wall = Time(tw_call[1].end_hm)

\* C2: a timestamp without zone information is treated as a UTC instant and
\* converted to America/New_York before the comparison, as
\* ensure_est_timezone does, so it gets the result of the same instant
\* tagged as UTC.
NaiveTreatedAsUtc ==
    (tw_mask # None /\ tw_call[1].index.tz = Naive) =>
        LET c == tw_call[1]
            t == ensure_est_timezone(c.index).wall
            start == Time(c.start_hm)
            end == Time(c.end_hm)
        IN  /\ tw_mask[1] = IF start <= end
                            THEN start <= t /\ t < end
                            ELSE t >= start \/ t < end
            /\ tw_mask[1] = in_time_window(TzLocalize(c.index, "UTC"),
                                           c.start_hm, c.end_hm)

(***************************************************************************)
(* Properties of the named sessions, under SpecSessionMask.                *)
(***************************************************************************)
\* C11: get_session_mask raises a configuration error for every name outside
\* the registry and returns no mask for it; for a registered name it returns
\* in_time_window with that name's fixed start and end.
UnknownSessionRaises ==
    sm_result # None =>
        LET c == sm_call[1]
            r == sm_result[1]
            Window(start_hm, end_hm) ==
                /\ r.raised = None
                /\ r.mask = Some(in_time_window(c.index, start_hm, end_hm))
        IN  CASE c.session = "premarket" -> Window(<<2, 0>>, <<7, 0>>)
              [] c.session = "ny_open" -> Window(<<9, 30>>, <<10, 0>>)
              [] c.session = "killzone" -> Window(<<10, 0>>, <<11, 0>>)
              [] c.session = "london_ny" -> Window(<<8, 0>>, <<11, 0>>)
              [] c.session = "power_hour" -> Window(<<14, 0>>, <<15, 0>>)
              [] c.session = "afternoon" -> Window(<<13, 0>>, <<16, 0>>)
              [] OTHER -> r.raised = Some(UnknownSession) /\ r.mask = None

\* C11 witness: a name outside the registry was looked up and the call raised.
UnknownSessionLookedUp ==
    /\ sm_result # None
    /\ sm_call[1].session = "asia"
    /\ sm_result[1].raised # None

(***************************************************************************)
(* Properties of the strategy-side filter, under SpecSessionFilter.        *)
(***************************************************************************)
\* C13: get_session_filter uses the end-exclusive rule of the session
\* classifier: start <= t < end for a normal window, t >= start or t < end
\* for an overnight one, so it leaves out t = session_end and agrees with
\* in_time_window on every time and window.
FilterIsEndExclusive ==
    sf_result # None =>
        LET c == sf_call[1]
            t == c.timestamp.wall
            start == Time(c.start_hm)
            end == Time(c.end_hm)
        IN  /\ sf_result[1] = IF start <= end
                               THEN start <= t /\ t < end
                               ELSE t >= start \/ t < end
            /\ sf_result[1] = in_time_window(c.timestamp, c.start_hm, c.end_hm)
            /\ t = end => ~sf_result[1]

(***************************************************************************)
(* Properties of signal validation, under SpecSignal.                      *)
(***************************************************************************)
\* C3: a BUY/SELL signal whose side-aware risk (long: price - stop, short:
\* stop - price) is not positive is rejected, whatever its target.
NonPositiveRiskRejected ==
    (/\ sig_valid # None
     /\ sig_call[1].signal.signal_type \in {"BUY", "SELL"}
     /\ sig_call[1].signal.stop_loss # None
     /\ sig_call[1].signal.take_profit # None) =>
        LET g == sig_call[1].signal
            risk == IF g.signal_type = "BUY"
                    THEN g.price - g.stop_loss[1]
                    ELSE g.stop_loss[1] - g.price
        IN  risk <= 0 => sig_valid[1] = FALSE

\* C4: a BUY/SELL signal with a stop, a target and positive risk is valid
\* exactly when reward / risk >= the configured RiskConfig.min_risk_reward.
ConfiguredRatioDecides ==
    (/\ sig_valid # None
     /\ sig_call[1].signal.signal_type \in {"BUY", "SELL"}
     /\ sig_call[1].signal.stop_loss # None
     /\ sig_call[1].signal.take_profit # None) =>
        LET g == sig_call[1].signal
            min == sig_call[1].min_risk_reward
            risk == IF g.signal_type = "BUY"
                    THEN g.price - g.stop_loss[1]
                    ELSE g.stop_loss[1] - g.price
            reward == IF g.signal_type = "BUY"
                      THEN g.take_profit[1] - g.price
                      ELSE g.price - g.take_profit[1]
        IN  risk > 0 => sig_valid[1] = (reward * min[2] >= min[1] * risk)

\* C5: a signal without a stop price is never accepted, whatever its type,
\* price, target and confidence.
NoStopNeverAccepted ==
    (sig_valid # None /\ sig_call[1].signal.stop_loss = None) =>
        sig_valid[1] = FALSE

\* C5 witness: a BUY signal with a target and no stop has been rejected.
BuyWithoutStopRejected ==
    /\ sig_valid = Some(FALSE)
    /\ sig_call[1].signal.stop_loss = None
    /\ sig_call[1].signal.signal_type = "BUY"
    /\ sig_call[1].signal.take_profit # None

(***************************************************************************)
(* Properties of position sizing, under SpecSizing.                        *)
(***************************************************************************)
\* C12: sizing a signal whose stop distance |price - stop| is zero fails
\* with a SizingError and yields no quantity; a sizing that returns yields
\* a quantity above zero.
ZeroStopDistanceFailsSizing ==
    size_result # None =>
        LET g == size_call[1].signal
            r == size_result[1]
        IN  /\ g.price = g.stop_loss[1] =>
                   r.raised = Some(SizingError) /\ r.quantity = None
            /\ r.raised # None => r.quantity = None
            /\ r.raised = None => r.quantity # None /\ r.quantity[1] > 0

\* C12 witness: a signal with its stop at the entry price was sized and the
\* sizing raised.
StopAtEntrySized ==
    /\ size_result # None
    /\ size_call[1].signal.price = size_call[1].signal.stop_loss[1]
    /\ size_result[1].raised # None

(***************************************************************************)
(* Properties of the orchestrator, under SpecBot.                          *)
(***************************************************************************)
IsStrategyStep(e) == e.strategy # 0
StrategySteps == SelectSeq(calls, IsStrategyStep)
StepOrder == <<"prepare", "run_backtest", "analyze", "record">>

\* C6: backtest with no registered strategy raises the empty-strategy-set
\* error before anything is loaded or looked up: no collaborator is called
\* and bot.results is what it was.
NoStrategiesFailsFirst ==
    (outcome.call = "backtest" /\ Len(strategies) = 0) =>
        /\ outcome.status = "raised"
        /\ outcome.error = NoStrategiesAdded
        /\ pc = "idle"
        /\ calls = <<>>
        /\ run.raw = None /\ run.meta = None
        /\ results = run.results_before

\* C6 witness: backtest was called on a bot without strategies and raised.
BacktestWithoutStrategies ==
    /\ outcome.call = "backtest"
    /\ outcome.status = "raised"
    /\ Len(strategies) = 0

\* C7: backtest with a registered strategy and an empty dataset ends with
\* the empty-dataset error before any prepare and before the engine.
EmptyDatasetFailsFast ==
    (/\ outcome.call = "backtest"
     /\ Len(strategies) >= 1
     /\ run.raw # None
     /\ ~run.raw[1].failed
     /\ Len(run.raw[1].index) = 0) =>
        /\ pc = "idle"
        /\ outcome.status = "raised"
        /\ outcome.error \in {NoDataReturned, NoDataLoaded}
        /\ \A k \in DOMAIN calls :
               calls[k].op \notin {"BacktraderEngine", "prepare", "run_backtest",
                                   "analyze", "record"}

\* C7 witness: a download without bars ended a backtest of one strategy.
EmptyDownloadRaised ==
    /\ outcome.call = "backtest"
    /\ outcome.status = "raised"
    /\ Len(strategies) >= 1
    /\ run.raw # None
    /\ ~run.raw[1].failed
    /\ Len(run.raw[1].index) = 0

\* C8: one backtest run works through the strategies in the order of their
\* registration and, for each, through prepare, engine run, analysis and the
\* recording of its result, before the next strategy's first step.
StrategiesInRegistrationOrder ==
    \A k \in DOMAIN StrategySteps :
        /\ StrategySteps[k].op = StepOrder[((k - 1) % 4) + 1]
        /\ StrategySteps[k].strategy = ((k - 1) \div 4) + 1

\* C8 witness: a run over two strategies has returned.
TwoStrategiesCompleted ==
    /\ outcome.call = "backtest"
    /\ outcome.status = "returned"
    /\ Len(StrategySteps) = 8

\* C9: when a step of the k-th strategy fails, backtest raises and no
\* strategy registered after the k-th is prepared or run.
StrategyFailureAbortsRun ==
    (outcome.call = "backtest" /\ run.failed_at # 0) =>
        /\ pc = "idle"
        /\ outcome.status = "raised"
        /\ outcome.error \in {StrategyError, EngineError, AnalyzerError,
                              AttributeError}
        /\ \A k \in DOMAIN calls :
               \A j \in (run.failed_at + 1)..Len(strategies) :
                   calls[k].strategy # strategies[j].id

\* C9 witness: the engine failed on the first of two strategies.
FirstOfTwoFailed ==
    /\ outcome.call = "backtest"
    /\ outcome.error = EngineError
    /\ run.failed_at = 1
    /\ Len(strategies) = 2

\* C10: get_instrument_meta never raises; it returns the table's entry for a
\* predefined symbol and otherwise a fallback with that symbol, asset class
\* "unknown", tick size 0.01 and point value 1.0; the table stays as it is.
LookupNeverRaises ==
    LET Expected(sym) ==
            IF sym \in {"ES=F", "EURUSD=X", "DX-Y.NYB"}
            THEN PredefinedInstruments[sym]
            ELSE [symbol |-> sym, asset_class |-> "unknown",
                  tick_size |-> "0.01", point_value |-> "1.0", pip |-> None,
                  pip_value_per_standard_lot |-> None]
    IN  /\ INSTRUMENTS = PredefinedInstruments
        /\ outcome.call = "get_instrument_meta" =>
               /\ outcome.status = "returned"
               /\ outcome.value = Some(Expected(outcome.arg))
        /\ outcome.call = "backtest" =>
               /\ outcome.error # KeyError
               /\ run.meta # None => run.meta = Some(Expected(run.symbol))

\* C10 witness: a symbol outside the table was looked up and got the fallback.
UnknownSymbolLookedUp ==
    /\ outcome.call = "get_instrument_meta"
    /\ outcome.arg = "AAPL"
    /\ outcome.status = "returned"
    /\ outcome.value[1].asset_class = "unknown"
    /\ outcome.value[1].symbol = "AAPL"

\* The last strategy registered under the name.
LastNamed(name) ==
    CHOOSE i \in DOMAIN strategies :
        /\ strategies[i].name = name
        /\ \A j \in DOMAIN strategies : strategies[j].name = name => j <= i

\* C14: bot.results is the complete result set of the last backtest that
\* returned, and empty before any has: a step in which backtest returns
\* replaces results by that run's results, one entry for every registered
\* name and none besides, each from this run's engine result; every other
\* step, a failing backtest's included, leaves results as it was.
ResultsOfLastSuccess ==
    [][IF pc # "idle" /\ pc' = "idle" /\ outcome'.status = "returned"
       THEN /\ results' = outcome'.value[1]
            /\ Len(run'.trades) = Len(strategies)
            /\ \A i \in DOMAIN strategies :
                   \E k \in DOMAIN results' : results'[k].key = strategies[i].name
            /\ \A k \in DOMAIN results' :
                   /\ \E i \in DOMAIN strategies :
                          strategies[i].name = results'[k].key
                   /\ results'[k].value.backtest_result.trades
                          = run'.trades[LastNamed(results'[k].key)]
                   /\ results'[k].value.performance.total_trades
                          = Len(run'.trades[LastNamed(results'[k].key)])
                   /\ \A l \in DOMAIN results' :
                          results'[l].key = results'[k].key => l = k
       ELSE results' = results]_vars

\* C14 witness: after a run that returned, a later run failed at its second
\* strategy with one result collected, and bot.results is still the earlier
\* run's.
LaterRunFailedMidway ==
    /\ outcome.call = "backtest"
    /\ outcome.status = "raised"
    /\ run.failed_at = 2
    /\ run.results # EmptyDict
    /\ results # EmptyDict
    /\ results # run.results
    /\ results = run.results_before

\* C15: after a backtest over N registered strategies has returned,
\* bot.results holds one result per registered strategy, and
\* get_performance_summary returns N rows, one per strategy in registration
\* order, whatever the strategies' names are.
OneResultPerStrategy ==
    /\ (outcome.call = "backtest" /\ outcome.status = "returned") =>
           /\ Len(results) = Len(strategies)
           /\ \A i \in DOMAIN strategies : results[i].key = strategies[i].name
    /\ (/\ outcome.call = "get_performance_summary"
        /\ Len(strategies) >= 1
        /\ run.failed_at = 0
        /\ Len(run.trades) = Len(strategies)
        /\ results = run.results) =>
           /\ Len(outcome.value[1]) = Len(strategies)
           /\ \A i \in DOMAIN strategies :
                  outcome.value[1][i].Strategy = strategies[i].name

====
